---- MODULE Spec2Model ----
(***************************************************************************)
(* A model of adeqt (src/adeqt.py): the execution pipeline of              *)
(* AdeqtWidget.run, the value-echo hook, the scoped stream redirection,    *)
(* the construction of the session namespace, and the dotted-name          *)
(* extraction used by tab completion.                                      *)
(*                                                                         *)
(* Text in the entry widget is a sequence of atoms.  An atom is a newline  *)
(* or a source fragment: a piece of Python source without whitespace at    *)
(* its ends, whose parse, compile and run behaviour under CPython is       *)
(* tabulated below.  Entered texts hold at most one fragment per line, so  *)
(* the statements of the parsed program are the fragments in order.        *)
(* Text written to the scrollback is a sequence of such atoms too.         *)
(***************************************************************************)
EXTENDS Integers, Sequences, FiniteSets, TLC

VARIABLES
    buffer,          \* entry.toPlainText(): the entered-code buffer
    display,         \* the scrollback pane, everything written so far
    namespace,       \* AdeqtWidget.namespace: name -> object or Missing
    underscore,      \* builtins._
    sys_stdout,      \* sys.stdout
    sys_stderr,      \* sys.stderr
    sys_displayhook, \* sys.displayhook
    variables,       \* the mapping the host passed to the constructor
    pc,              \* position inside run(); "editing" when not in run()
    code,            \* run(): local code
    mod_body,        \* run(): mod.body as returned by ast.parse
    code_objs,       \* run(): local code_objs
    idx,             \* run(): position of the for loop over code_objs
    exc,             \* run(): the exception in flight, NoExc when none
    save,            \* capture_output(): save_stdout, save_stderr, save_displayhook
    at_entry,        \* history: streams, buffer and namespace when run() was entered
    escaped,         \* history: the exception that left the last run(), NoExc when it returned
    nruns,           \* number of run() calls so far
    typed,           \* number of atoms put into the entry so far
    cursor_text,     \* CodeEntry.textToCursor(): the characters before the cursor
    dotted,          \* show_completions(): local dotted_name, NotCalled before
    tokens,          \* get_dotted_name(): what tokenize_maybe_incomplete yielded
    complete_attrs_key, \* CodeEntry._complete_attrs_key
    model,           \* the completer's model: the candidate list
    completion_prefix,  \* completer.completionPrefix()
    popup,           \* completer.popup().isVisible()
    recomputed,      \* show_completions(): whether the last call set a new model
    last_key,        \* keyPressEvent(e): the key of the last event
    history,         \* CodeEntry: the submitted codes, oldest first
    hist_index,      \* CodeEntry.hist_index
    hist_pending     \* CodeEntry: the text being edited when navigation started

vars == <<buffer, display, namespace, underscore, sys_stdout, sys_stderr,
          sys_displayhook, variables, pc, code, mod_body, code_objs, idx,
          exc, save, at_entry, escaped, nruns, typed, cursor_text, dotted,
          tokens, complete_attrs_key, model, completion_prefix, popup,
          recomputed, last_key, history, hist_index, hist_pending>>

\* the variables of the completion machinery
entryvars == <<cursor_text, dotted, tokens, complete_attrs_key, model,
               completion_prefix, popup, recomputed, last_key,
               history, hist_index, hist_pending>>

\* the completer's state
compvars == <<complete_attrs_key, model, completion_prefix, popup,
              recomputed, last_key>>

\* the submission history
histvars == <<history, hist_index, hist_pending>>

\* the variables of the execution pipeline
runvars == <<buffer, display, namespace, underscore, sys_stdout, sys_stderr,
             sys_displayhook, variables, pc, code, mod_body, code_objs, idx,
             exc, save, at_entry, escaped, nruns, typed>>

----------------------------------------------------------------------------
\* Bounds of the model

MaxLen == 3
MaxTyped == 3
MaxRuns == 2
MaxCodeLen == 5
MaxHist == 2

----------------------------------------------------------------------------
\* Source text

NL == "\n"

Fragments == {"x=1", "del x", "x", "None", "def f(:", "yield", "return",
              "raise SystemExit", "#c"}

Atoms == Fragments \cup {NL}

\* str.isspace on one atom
IsSpace(a) == a = NL

SeqsUpTo(S, n) == UNION {[1..k -> S] : k \in 0..n}

\* the texts a user enters: at most one fragment per line
Texts == {t \in SeqsUpTo(Atoms, MaxLen) :
            \A i \in 1..(Len(t) - 1) : t[i] = NL \/ t[i + 1] = NL}

Last(s) == s[Len(s)]
Front(s) == SubSeq(s, 1, Len(s) - 1)

RECURSIVE Join(_)
Join(ss) == IF ss = <<>> THEN <<>> ELSE Head(ss) \o Join(Tail(ss))

\* str.rstrip()
RECURSIVE rstrip(_)
rstrip(s) ==
    IF s = <<>> \/ ~IsSpace(Last(s)) THEN s ELSE rstrip(Front(s))

\* str.splitlines(keepends=True)
RECURSIVE splitlines(_)
splitlines(s) ==
    IF s = <<>> THEN <<>>
    ELSE IF \E i \in 1..Len(s) : s[i] = NL
         THEN LET i == CHOOSE j \in 1..Len(s) :
                          s[j] = NL /\ \A k \in 1..(j - 1) : s[k] # NL
              IN  <<SubSeq(s, 1, i)>> \o splitlines(SubSeq(s, i + 1, Len(s)))
         ELSE <<s>>

\* add_prompt(code): the lines of the echo, or a raised IndexError when
\* code.rstrip() has no line (lines[0] of an empty list)
add_prompt_raises(c) == splitlines(rstrip(c)) = <<>>

add_prompt(c) ==
    LET lines == splitlines(rstrip(c))
    IN  <<">>> ">> \o lines[1]
        \o Join([i \in 1..(Len(lines) - 1) |-> <<"... ">> \o lines[i + 1]])
        \o <<NL>>

----------------------------------------------------------------------------
\* Exceptions

NoExc == [type |-> "none", msg |-> ""]
Exc(t, m) == [type |-> t, msg |-> m]

\* isinstance(e, Exception): what "except Exception" catches.  SystemExit
\* derives from BaseException only.
IsException(e) == e.type \in {"SyntaxError", "NameError", "IndexError"}

\* traceback.format_exception_only(type(e), e), as a list of lines
format_exception_only(e) ==
    IF e.type = "SyntaxError"
    THEN <<"  File \"<string>\", line 1", NL, "SyntaxError: ", e.msg, NL>>
    ELSE <<e.type, ": ", e.msg, NL>>

\* traceback.format_exception(type(e), e, e.__traceback__)
format_exception(e) ==
    <<"Traceback (most recent call last):", NL,
      "  File \"<string>\", line 1, in <module>", NL>>
    \o format_exception_only(e)

\* ''.join(es).rstrip() + '\n' with es the exception-only form
ReportOnly(e) == rstrip(format_exception_only(e)) \o <<NL>>

\* ''.join(es).rstrip() + '\n' with es the full traceback form
ReportTraceback(e) == rstrip(format_exception(e)) \o <<NL>>

----------------------------------------------------------------------------
\* Python objects and the interpreter calls run() makes

Missing == "<missing>"
None == "None"
Widget == "widget"
HostObj == "host object"
BuiltinsModule == "builtins module"
Int1 == "int 1"
Int7 == "int 7"

Names == {"adeqt", "x", "y", "__builtins__", "_", "len"}
Values == {None, Widget, HostObj, BuiltinsModule, Int1, Int7}

\* repr(value)
Repr(v) ==
    CASE v = Int1 -> "1"
      [] v = Int7 -> "7"
      [] v = None -> "None"
      [] v = Widget -> "<adeqt.AdeqtWidget object>"
      [] v = HostObj -> "<host object>"
      [] OTHER -> "<module 'builtins' (built-in)>"

\* the stream and hook objects
OutputStream == "widget.output_stream"
WidgetHook == "widget.displayhook"
Stdouts == {"sys.__stdout__", "host stdout"}
OrigStderr == "sys.__stderr__"
OrigHook == "sys.__displayhook__"

\* ast.parse(code) raises
ParseError(c) ==
    IF \E i \in 1..Len(c) : c[i] = "def f(:"
    THEN Exc("SyntaxError", "invalid syntax")
    ELSE NoExc

IsStatement(a) == a \in Fragments \ {"#c"}

\* ast.parse(code).body: comments and blank lines give no statement
ParseBody(c) == SelectSeq(c, IsStatement)

\* isinstance(stmt, ast.Expr)
IsExpr(stmt) == stmt \in {"x", "None", "yield"}

NotCompilable(stmt) == stmt \in {"return", "yield"}

\* compile(...) raises: 'return' or 'yield' outside a function
CompileError(body) ==
    IF \E i \in 1..Len(body) : NotCompilable(body[i])
    THEN LET i == CHOOSE j \in 1..Len(body) :
                     NotCompilable(body[j])
                     /\ \A k \in 1..(j - 1) : ~NotCompilable(body[k])
         IN  Exc("SyntaxError", "'" \o body[i] \o "' outside function")
    ELSE NoExc

\* the code object compile(...) returns
CodeObj(body, mode) == [body |-> body, mode |-> mode]

\* AdeqtWidget.write(text)
write(d, text) == d \o text

\* displayhook without its test for None
displayhook_NoNoneCheck(value, st) ==
    [st EXCEPT !.underscore = value,
               !.display = write(@, <<Repr(value), NL>>)]

\* AdeqtWidget.displayhook(value) on the interpreter state st
displayhook(value, st) ==
    IF value = None
    THEN st
    ELSE [st EXCEPT !.underscore = value,
                    !.display = write(@, <<Repr(value), NL>>)]

\* sys.displayhook(value) as the "single" code object calls it: the hook
\* installed at that moment; the interpreter's own hook stores the value and
\* prints to the process's stdout, not to the scrollback
CallHook(hook, value, st) ==
    IF hook = WidgetHook
    THEN displayhook(value, st)
    ELSE IF value = None THEN st ELSE [st EXCEPT !.underscore = value]

\* one statement of a code object run on the interpreter state st
ExecStmt(stmt, mode, hook, st) ==
    CASE stmt = "x=1" ->
           [st EXCEPT !.ns["x"] = Int1]
      [] stmt = "del x" ->
           IF st.ns["x"] = Missing
           THEN [st EXCEPT !.exc = Exc("NameError", "name 'x' is not defined")]
           ELSE [st EXCEPT !.ns["x"] = Missing]
      [] stmt = "x" ->
           IF st.ns["x"] = Missing
           THEN [st EXCEPT !.exc = Exc("NameError", "name 'x' is not defined")]
           ELSE IF mode = "single" THEN CallHook(hook, st.ns["x"], st) ELSE st
      [] stmt = "None" ->
           IF mode = "single" THEN CallHook(hook, None, st) ELSE st
      [] stmt = "raise SystemExit" ->
           [st EXCEPT !.exc = Exc("SystemExit", "")]
      [] OTHER -> st

RECURSIVE ExecStmts(_, _, _, _)
ExecStmts(body, mode, hook, st) ==
    IF body = <<>> \/ st.exc # NoExc
    THEN st
    ELSE ExecStmts(Tail(body), mode, hook, ExecStmt(Head(body), mode, hook, st))

\* exec(code_obj, namespace): the globals get __builtins__ when they lack
\* it, then the statements run until one raises
Exec(code_obj, hook, st) ==
    LET st0 == IF st.ns["__builtins__"] = Missing
               THEN [st EXCEPT !.ns["__builtins__"] = BuiltinsModule]
               ELSE st
    IN  ExecStmts(code_obj.body, code_obj.mode, hook, st0)

----------------------------------------------------------------------------
\* The tokenizer behind tab completion.  The text before the cursor is a
\* sequence of characters; positions are (row, col) with rows from 1 and
\* columns from 0, as in tokenize.TokenInfo.

\* the characters of the code the tokenizer is given
Chars == {"1", "Y", "_", "a", "b", "c", "d", "e", "g", "i", "l", "n",
          "o", "q", "r", "s", "t", "u", "x", "y",
          ".", "+", "(", "'", " ", "\t", "\n"}

\* the characters typed into the entry before a completion request
TypedChars == {"a", "1", ".", "+", "(", "'", " ", "\t", "\n"}

\* tokenize.tabsize
TabSize == 8

CodeTexts == SeqsUpTo(TypedChars, MaxCodeLen)

\* the characters that names are made of, in code point order
CodePoints == <<"1", "Y", "_", "a", "b", "c", "d", "e", "g", "i", "l", "n",
                "o", "q", "r", "s", "t", "u", "x", "y">>

\* the characters matched by \w.  A letter right before a quote is not
\* looked at as a string prefix: the texts with a quote have the letter a only
IsDigit(c) == c = "1"
IsWordChar(c) == \E i \in 1..Len(CodePoints) : CodePoints[i] = c

\* the characters of tokenize's Whitespace pattern
Blanks == {" ", "\t"}

\* the character of line at column col
At(line, col) == line[col + 1]

\* the column where the run of characters of S starting at column col ends
RunEnd(line, col, S) ==
    CHOOSE q \in col..Len(line) :
        /\ \A k \in col..(q - 1) : At(line, k) \in S
        /\ q = Len(line) \/ At(line, q) \notin S

\* s[col:]
From(s, col) == IF col >= Len(s) THEN <<>> ELSE SubSeq(s, col + 1, Len(s))

Token(type, string, row, endcol) ==
    [type |-> type, string |-> string, end |-> <<row, endcol>>]

\* the column where the digits matched by [0-9](?:_?[0-9])* from start end
DigitsEnd(line, start) ==
    CHOOSE q \in start..Len(line) :
        LET more(k) == \/ IsDigit(At(line, k))
                       \/ /\ At(line, k) = "_"
                          /\ k + 1 < Len(line)
                          /\ IsDigit(At(line, k + 1))
        IN  /\ \A k \in start..(q - 1) : more(k)
            /\ q = Len(line) \/ ~more(q)

\* where the first three quotes in a row at or after column pos end, -1
\* when line has none: the match of the end pattern of a triple-quoted string
TripleEnd(line, pos) ==
    LET S == {q \in pos..(Len(line) - 3) :
                 \A k \in q..(q + 2) : At(line, k) = "'"}
    IN  IF S = {} THEN -1
        ELSE 3 + CHOOSE q \in S : \A r \in S : q <= r

\* tokenize's PseudoToken regular expression after the leading whitespace,
\* at column start < Len(line): the type and the end column of the match
PseudoMatch(line, start, parenlev) ==
    LET c == At(line, start)
        max == Len(line)
    IN  CASE IsDigit(c) ->
               LET e1 == DigitsEnd(line, start)
               IN  IF e1 < max /\ At(line, e1) = "."
                   THEN [type |-> "NUMBER",
                         end |-> IF e1 + 1 < max /\ IsDigit(At(line, e1 + 1))
                                 THEN DigitsEnd(line, e1 + 1) ELSE e1 + 1]
                   ELSE [type |-> "NUMBER", end |-> e1]
          [] c = "." ->
               IF start + 1 < max /\ IsDigit(At(line, start + 1))
               THEN [type |-> "NUMBER", end |-> DigitsEnd(line, start + 1)]
               ELSE IF start + 2 < max /\ At(line, start + 1) = "."
                                       /\ At(line, start + 2) = "."
                    THEN [type |-> "ELLIPSIS", end |-> start + 3]
                    ELSE [type |-> "DOT", end |-> start + 1]
          [] c = "\n" ->
               [type |-> IF parenlev > 0 THEN "NL" ELSE "NEWLINE",
                end |-> start + 1]
          [] IsWordChar(c) ->
               [type |-> "NAME",
                end |-> RunEnd(line, start, {ch \in Chars : IsWordChar(ch)})]
          [] c = "'" ->
               IF start + 2 < max /\ At(line, start + 1) = "'"
                                  /\ At(line, start + 2) = "'"
               THEN [type |-> "TRIPLE", end |-> start + 3]
               ELSE LET q == RunEnd(line, start + 1, Chars \ {"'", "\n"})
                    IN  IF q < max /\ At(line, q) = "'"
                        THEN [type |-> "STRING", end |-> q + 1]
                        ELSE [type |-> "ERRORTOKEN", end |-> start + 1]
          [] c = "(" -> [type |-> "LPAR", end |-> start + 1]
          [] OTHER -> [type |-> "PLUS", end |-> start + 1]

\* the inner loop of tokenize._tokenize over one line, from column pos
RECURSIVE ScanLine(_, _, _, _)
ScanLine(line, lnum, pos, st) ==
    IF pos >= Len(line)
    THEN st
    ELSE LET start == RunEnd(line, pos, Blanks)
         IN  IF start = Len(line)
             THEN st
             ELSE LET m == PseudoMatch(line, start, st.parenlev)
                      tok == Token(m.type, SubSeq(line, start + 1, m.end),
                                   lnum, m.end)
                  IN  CASE m.type = "ERRORTOKEN" ->
                             \* no match: the character at pos is the token
                             ScanLine(line, lnum, pos + 1,
                                 [st EXCEPT !.toks = Append(@,
                                     Token("ERRORTOKEN", <<At(line, pos)>>,
                                           lnum, pos + 1))])
                        [] m.type = "TRIPLE" ->
                             LET e == TripleEnd(line, m.end)
                             IN  IF e >= 0
                                 THEN ScanLine(line, lnum, e,
                                        [st EXCEPT !.toks = Append(@,
                                            Token("STRING",
                                                  SubSeq(line, start + 1, e),
                                                  lnum, e))])
                                 ELSE [st EXCEPT
                                         !.contstr = From(line, start)]
                        [] OTHER ->
                             ScanLine(line, lnum, m.end,
                                 [st EXCEPT !.toks = Append(@, tok),
                                            !.parenlev = IF m.type = "LPAR"
                                                         THEN @ + 1 ELSE @])

\* the DEDENT tokens of a line indented to column, or the IndentationError
\* when column matches no outer level
RECURSIVE Dedent(_, _, _, _)
Dedent(column, pos, lnum, st) ==
    IF column >= Last(st.indents)
    THEN st
    ELSE IF \A i \in 1..Len(st.indents) : st.indents[i] # column
         THEN [st EXCEPT !.err = "IndentationError"]
         ELSE Dedent(column, pos, lnum,
                     [st EXCEPT !.indents = Front(@),
                                !.toks = Append(@, Token("DEDENT", <<>>, lnum, pos))])

\* the column of the first pos characters of line, all blanks: a tab goes on
\* to the next multiple of tabsize
RECURSIVE IndentColumn(_, _)
IndentColumn(line, pos) ==
    IF pos = 0 THEN 0
    ELSE LET column == IndentColumn(line, pos - 1)
         IN  IF At(line, pos - 1) = "\t"
             THEN ((column \div TabSize) + 1) * TabSize
             ELSE column + 1

\* what tokenize._tokenize yields after its loop: the implicit NEWLINE, the
\* closing DEDENTs and the ENDMARKER
EndTokens(last_line, lnum, st) ==
    LET nl == IF last_line # <<>> /\ Last(last_line) # "\n"
              THEN <<Token("NEWLINE", <<>>, lnum - 1, Len(last_line) + 1)>>
              ELSE <<>>
        dedents == [i \in 1..(Len(st.indents) - 1) |-> Token("DEDENT", <<>>, lnum, 0)]
    IN  [st EXCEPT !.toks = @ \o nl \o dedents
                            \o <<Token("ENDMARKER", <<>>, lnum, 0)>>]

\* the outer loop of tokenize._tokenize from line number lnum
RECURSIVE TokenizeLines(_, _, _)
TokenizeLines(lines, lnum, st) ==
    LET line == IF lnum <= Len(lines) THEN lines[lnum] ELSE <<>>
        last_line == IF lnum >= 2 /\ lnum - 1 <= Len(lines)
                     THEN lines[lnum - 1] ELSE <<>>
    IN  IF st.contstr # <<>>
        THEN IF line = <<>>
             THEN [st EXCEPT !.err = "TokenError"]
             ELSE LET e == TripleEnd(line, 0)
                  IN  IF e >= 0
                      THEN TokenizeLines(lines, lnum + 1,
                             ScanLine(line, lnum, e,
                                 [st EXCEPT !.contstr = <<>>,
                                            !.toks = Append(@,
                                                Token("STRING",
                                                      st.contstr \o SubSeq(line, 1, e),
                                                      lnum, e))]))
                      ELSE TokenizeLines(lines, lnum + 1,
                             [st EXCEPT !.contstr = @ \o line])
        ELSE IF st.parenlev = 0
        THEN IF line = <<>>
             THEN EndTokens(last_line, lnum, st)
             ELSE LET pos == RunEnd(line, 0, Blanks)
                      column == IndentColumn(line, pos)
                  IN  IF pos = Len(line)
                      THEN EndTokens(last_line, lnum, st)
                      ELSE IF At(line, pos) = "\n"
                      THEN TokenizeLines(lines, lnum + 1,
                             [st EXCEPT !.toks = Append(@,
                                 Token("NL", SubSeq(line, pos + 1, Len(line)),
                                       lnum, Len(line)))])
                      ELSE LET st1 == IF column > Last(st.indents)
                                      THEN [st EXCEPT
                                              !.indents = Append(@, column),
                                              !.toks = Append(@,
                                                Token("INDENT", SubSeq(line, 1, pos), lnum, pos))]
                                      ELSE Dedent(column, pos, lnum, st)
                           IN  IF st1.err # "none"
                               THEN st1
                               ELSE TokenizeLines(lines, lnum + 1,
                                                  ScanLine(line, lnum, pos, st1))
        ELSE IF line = <<>>
             THEN [st EXCEPT !.err = "TokenError"]
             ELSE TokenizeLines(lines, lnum + 1, ScanLine(line, lnum, 0, st))

\* tokenize.generate_tokens(io.StringIO(code).readline): the tokens produced,
\* and the error that ends them, if any
generate_tokens(c) ==
    TokenizeLines(splitlines(c), 1,
                  [toks |-> <<>>, parenlev |-> 0, indents |-> <<0>>,
                   contstr |-> <<>>, err |-> "none"])

\* str.splitlines()
splitlines_noends(s) ==
    [i \in 1..Len(splitlines(s)) |->
        LET l == splitlines(s)[i]
        IN  IF Last(l) = "\n" THEN Front(l) ELSE l]

\* str.isspace()
isspace(s) == s # <<>> /\ \A i \in 1..Len(s) : s[i] \in {" ", "\t", "\n"}

\* last_end after the tokens toks
LastEnd(toks) == IF toks = <<>> THEN <<1, 0>> ELSE Last(toks).end

\* s = lines[row][col:] + ''.join(lines[row + 1:])
RestFrom(lines, row, col) ==
    From(lines[row], col)
      \o Join([i \in 1..(Len(lines) - row) |-> lines[row + i]])

\* the tokens with an IncompleteToken of type STRING for s, when s is not
\* blank
WithIncomplete(toks, lines, s) ==
    [toks |-> IF s # <<>> /\ ~isspace(s)
              THEN Append(toks,
                     [type |-> "STRING", string |-> s,
                      end |-> <<Len(lines), Len(Last(lines))>>])
              ELSE toks,
     err |-> "none"]

\* the except clauses of tokenize_maybe_incomplete for the outcome g of the
\* generator and lines = code.splitlines()
Recover(g, lines) ==
    IF g.err = "TokenError"
    THEN WithIncomplete(g.toks, lines,
                        RestFrom(lines, LastEnd(g.toks)[1], LastEnd(g.toks)[2]))
    ELSE [toks |-> g.toks, err |-> g.err]

\* tokenize_maybe_incomplete(code): on TokenError the tokens so far, then one
\* IncompleteToken of type STRING for a non-blank rest; any other error goes
\* on to the caller
tokenize_maybe_incomplete(c) == Recover(generate_tokens(c), splitlines_noends(c))

\* the loop body of get_dotted_name for one token
DottedStep(acc, token) ==
    CASE token.type = "NAME" ->
           [name_parts |-> Append(acc.name_parts, token.string),
            trailing_dot |-> FALSE]
      [] token.type \in {"NEWLINE", "NL", "ENDMARKER"} -> acc
      [] token.type = "DOT" -> [acc EXCEPT !.trailing_dot = TRUE]
      [] OTHER -> [name_parts |-> <<>>, trailing_dot |-> FALSE]

RECURSIVE DottedLoop(_, _)
DottedLoop(acc, toks) ==
    IF toks = <<>> THEN acc ELSE DottedLoop(DottedStep(acc, Head(toks)), Tail(toks))

\* get_dotted_name appending '' only when no name was collected
DottedFinish_NoTrailingDot(acc) ==
    IF acc.name_parts = <<>>
    THEN Append(acc.name_parts, <<>>)
    ELSE acc.name_parts

\* what get_dotted_name appends after the loop
DottedFinish(acc) ==
    IF acc.trailing_dot \/ acc.name_parts = <<>>
    THEN Append(acc.name_parts, <<>>)
    ELSE acc.name_parts

\* what get_dotted_name returns or raises for the outcome t of
\* tokenize_maybe_incomplete
DottedResult(t) ==
    IF t.err # "none"
    THEN [raises |-> t.err, value |-> <<>>]
    ELSE [raises |-> "none",
          value |-> DottedFinish(DottedLoop([name_parts |-> <<>>,
                                             trailing_dot |-> FALSE], t.toks))]

\* get_dotted_name(code): the tuple returned, or the error raised
get_dotted_name(c) == DottedResult(tokenize_maybe_incomplete(c))

----------------------------------------------------------------------------
\* AdeqtWidget.__init__

NoMapping == [n \in Names |-> Missing]

\* the constructor's variables argument: None, or a mapping
VariablesArgs ==
    { [given |-> FALSE, map |-> NoMapping],
      [given |-> TRUE, map |-> [NoMapping EXCEPT !["y"] = Int7]],
      [given |-> TRUE, map |-> [NoMapping EXCEPT !["adeqt"] = HostObj,
                                                  !["x"] = Int7]],
      [given |-> TRUE, map |-> [NoMapping EXCEPT !["_"] = HostObj,
                                                  !["len"] = Int7]] }

\* dict.update(other)
update(d, other) == [n \in Names |-> IF other[n] # Missing THEN other[n] ELSE d[n]]

\* __init__ seeding adeqt after the caller's mapping instead of before it
NamespaceInit_WidgetWins(v) ==
    LET own == [NoMapping EXCEPT !["adeqt"] = Widget]
    IN  IF v.given THEN update(v.map, own) ELSE own

\* self.namespace after __init__
NamespaceInit(v) ==
    LET seeded == [NoMapping EXCEPT !["adeqt"] = Widget]
    IN  IF v.given THEN update(seeded, v.map) ELSE seeded

Streams == [stdout |-> sys_stdout, stderr |-> sys_stderr,
            displayhook |-> sys_displayhook]

NotCalled == [raises |-> "not called", value |-> <<>>]

\* self._complete_attrs_key = None
NoKey == [set |-> FALSE, attr_of |-> <<>>]

\* QCompleter(["foo", "bar", "baz", "bang"], self)
InitialModel == << <<"f", "o", "o">>, <<"b", "a", "r">>, <<"b", "a", "z">>,
                   <<"b", "a", "n", "g">> >>

Init ==
    /\ variables \in VariablesArgs
    /\ namespace = NamespaceInit(variables)
    /\ buffer = <<>>
    /\ display = <<>>
    /\ underscore = Missing
    /\ sys_stdout \in Stdouts
    /\ sys_stderr = OrigStderr
    /\ sys_displayhook = OrigHook
    /\ pc = "editing"
    /\ code = <<>>
    /\ mod_body = <<>>
    /\ code_objs = <<>>
    /\ idx = 0
    /\ exc = NoExc
    /\ save = [stdout |-> sys_stdout, stderr |-> OrigStderr,
               displayhook |-> OrigHook]
    /\ at_entry = [streams |-> [stdout |-> sys_stdout, stderr |-> OrigStderr,
                                displayhook |-> OrigHook],
                   buffer |-> <<>>, namespace |-> namespace,
                   display |-> <<>>, underscore |-> Missing]
    /\ escaped = NoExc
    /\ nruns = 0
    /\ typed = 0
    /\ cursor_text = <<>>
    /\ dotted = NotCalled
    /\ tokens = <<>>
    /\ complete_attrs_key = NoKey
    /\ model = InitialModel
    /\ completion_prefix = <<>>
    /\ popup = FALSE
    /\ recomputed = FALSE
    /\ last_key = "none"
    /\ history = <<>>
    /\ hist_index = 0
    /\ hist_pending = <<>>

----------------------------------------------------------------------------
\* The user edits the entry: entry.setPlainText(text)

SetText(t) ==
    /\ pc = "editing"
    /\ typed + Len(t) <= MaxTyped
    /\ buffer' = t
    /\ typed' = typed + Len(t)
    /\ UNCHANGED <<display, namespace, underscore, sys_stdout, sys_stderr,
                   sys_displayhook, variables, pc, code, mod_body, code_objs,
                   idx, exc, save, at_entry, escaped, nruns>>
    /\ UNCHANGED entryvars

----------------------------------------------------------------------------
\* AdeqtWidget.run, step by step.  Nothing else runs while pc # "editing":
\* the widget lives on the one UI thread.

\* run() is entered: the buffer is read and echoed with the prompt; when
\* add_prompt raises, the IndexError leaves run()
RunEcho ==
    /\ pc = "editing"
    /\ nruns < MaxRuns
    /\ nruns' = nruns + 1
    /\ code' = buffer
    /\ at_entry' = [streams |-> Streams, buffer |-> buffer,
                    namespace |-> namespace, display |-> display,
                    underscore |-> underscore]
    /\ mod_body' = <<>>
    /\ code_objs' = <<>>
    /\ idx' = 0
    /\ exc' = NoExc
    /\ IF add_prompt_raises(buffer)
       THEN /\ escaped' = Exc("IndexError", "list index out of range")
            /\ pc' = "editing"
            /\ UNCHANGED display
       ELSE /\ escaped' = NoExc
            /\ display' = write(display, add_prompt(buffer))
            /\ pc' = "parse"
    /\ UNCHANGED <<buffer, namespace, underscore, sys_stdout, sys_stderr,
                   sys_displayhook, variables, save, typed>>
    /\ UNCHANGED entryvars

\* run() clearing the entry on a syntax error too
RunParse_ClearsOnError ==
    /\ pc = "parse"
    /\ IF ParseError(code) # NoExc
       THEN /\ display' = write(display, ReportOnly(ParseError(code)))
            /\ pc' = "editing"
            /\ buffer' = <<>>
            /\ UNCHANGED mod_body
       ELSE /\ mod_body' = ParseBody(code)
            /\ pc' = "split"
            /\ UNCHANGED <<display, buffer>>
    /\ UNCHANGED <<namespace, underscore, sys_stdout, sys_stderr,
                   sys_displayhook, variables, code, code_objs, idx, exc,
                   save, at_entry, escaped, nruns, typed>>
    /\ UNCHANGED entryvars

\* mod = ast.parse(code), and the report when it raises
RunParse ==
    /\ pc = "parse"
    /\ IF ParseError(code) # NoExc
       THEN /\ display' = write(display, ReportOnly(ParseError(code)))
            /\ pc' = "editing"
            /\ UNCHANGED mod_body
       ELSE /\ mod_body' = ParseBody(code)
            /\ pc' = "split"
            /\ UNCHANGED display
    /\ UNCHANGED <<buffer, namespace, underscore, sys_stdout, sys_stderr,
                   sys_displayhook, variables, code, code_objs, idx, exc,
                   save, at_entry, escaped, nruns, typed>>
    /\ UNCHANGED entryvars

\* if not mod.body: clear the entry and return
RunEmpty ==
    /\ pc = "split"
    /\ mod_body = <<>>
    /\ buffer' = <<>>
    /\ pc' = "editing"
    /\ UNCHANGED <<display, namespace, underscore, sys_stdout, sys_stderr,
                   sys_displayhook, variables, code, mod_body, code_objs,
                   idx, exc, save, at_entry, escaped, nruns, typed>>
    /\ UNCHANGED entryvars

\* run() putting the expression's code object before the module's
RunCompileSplit_Swapped ==
    /\ pc = "split"
    /\ mod_body # <<>>
    /\ IsExpr(Last(mod_body))
    /\ LET expr == Last(mod_body)
           rest == Front(mod_body)
           e1 == CompileError(rest)
           e2 == CompileError(<<expr>>)
           e == IF e1 # NoExc THEN e1 ELSE e2
       IN  IF e # NoExc
           THEN /\ display' = write(display, ReportOnly(e))
                /\ pc' = "editing"
                /\ UNCHANGED code_objs
           ELSE /\ code_objs' = <<CodeObj(<<expr>>, "single"), CodeObj(rest, "exec")>>
                /\ pc' = "clear"
                /\ UNCHANGED display
    /\ UNCHANGED <<buffer, namespace, underscore, sys_stdout, sys_stderr,
                   sys_displayhook, variables, code, mod_body, idx, exc,
                   save, at_entry, escaped, nruns, typed>>
    /\ UNCHANGED entryvars

\* run() going on to execution without looking at the expression's compile
RunCompileSplit_ExprUnchecked ==
    /\ pc = "split"
    /\ mod_body # <<>>
    /\ IsExpr(Last(mod_body))
    /\ LET expr == Last(mod_body)
           rest == Front(mod_body)
           e == CompileError(rest)
       IN  IF e # NoExc
           THEN /\ display' = write(display, ReportOnly(e))
                /\ pc' = "editing"
                /\ UNCHANGED code_objs
           ELSE /\ code_objs' = <<CodeObj(rest, "exec"), CodeObj(<<expr>>, "single")>>
                /\ pc' = "clear"
                /\ UNCHANGED display
    /\ UNCHANGED <<buffer, namespace, underscore, sys_stdout, sys_stderr,
                   sys_displayhook, variables, code, mod_body, idx, exc,
                   save, at_entry, escaped, nruns, typed>>
    /\ UNCHANGED entryvars

\* the last statement is an expression statement: it is popped and compiled
\* on its own in "single" mode, after the rest of the module
RunCompileSplit ==
    /\ pc = "split"
    /\ mod_body # <<>>
    /\ IsExpr(Last(mod_body))
    /\ LET expr == Last(mod_body)
           rest == Front(mod_body)
           e1 == CompileError(rest)
           e2 == CompileError(<<expr>>)
           e == IF e1 # NoExc THEN e1 ELSE e2
       IN  IF e # NoExc
           THEN /\ display' = write(display, ReportOnly(e))
                /\ pc' = "editing"
                /\ UNCHANGED code_objs
           ELSE /\ code_objs' = <<CodeObj(rest, "exec"), CodeObj(<<expr>>, "single")>>
                /\ pc' = "clear"
                /\ UNCHANGED display
    /\ UNCHANGED <<buffer, namespace, underscore, sys_stdout, sys_stderr,
                   sys_displayhook, variables, code, mod_body, idx, exc,
                   save, at_entry, escaped, nruns, typed>>
    /\ UNCHANGED entryvars

\* otherwise the whole module is one code object
RunCompileWhole ==
    /\ pc = "split"
    /\ mod_body # <<>>
    /\ ~IsExpr(Last(mod_body))
    /\ LET e == CompileError(mod_body)
       IN  IF e # NoExc
           THEN /\ display' = write(display, ReportOnly(e))
                /\ pc' = "editing"
                /\ UNCHANGED code_objs
           ELSE /\ code_objs' = <<CodeObj(mod_body, "exec")>>
                /\ pc' = "clear"
                /\ UNCHANGED display
    /\ UNCHANGED <<buffer, namespace, underscore, sys_stdout, sys_stderr,
                   sys_displayhook, variables, code, mod_body, idx, exc,
                   save, at_entry, escaped, nruns, typed>>
    /\ UNCHANGED entryvars

\* self.entry.clear()
RunClear ==
    /\ pc = "clear"
    /\ buffer' = <<>>
    /\ pc' = "enter"
    /\ UNCHANGED <<display, namespace, underscore, sys_stdout, sys_stderr,
                   sys_displayhook, variables, code, mod_body, code_objs,
                   idx, exc, save, at_entry, escaped, nruns, typed>>
    /\ UNCHANGED entryvars

\* capture_output().__enter__: save the streams and the hook, install the
\* widget's
CaptureEnter ==
    /\ pc = "enter"
    /\ save' = Streams
    /\ sys_stdout' = OutputStream
    /\ sys_stderr' = OutputStream
    /\ sys_displayhook' = WidgetHook
    /\ idx' = 1
    /\ pc' = "exec"
    /\ UNCHANGED <<buffer, display, namespace, underscore, variables, code,
                   mod_body, code_objs, exc, at_entry, escaped, nruns, typed>>
    /\ UNCHANGED entryvars

\* run() executing each code object in a copy of the namespace
RunExec_OnCopy ==
    /\ pc = "exec"
    /\ idx <= Len(code_objs)
    /\ LET st == Exec(code_objs[idx], sys_displayhook,
                      [ns |-> namespace, underscore |-> underscore,
                       display |-> display, exc |-> NoExc])
       IN  /\ namespace' = namespace
           /\ underscore' = st.underscore
           /\ display' = st.display
           /\ exc' = st.exc
           /\ IF st.exc = NoExc
              THEN /\ idx' = idx + 1
                   /\ pc' = IF idx + 1 > Len(code_objs) THEN "exit" ELSE "exec"
              ELSE /\ idx' = idx
                   /\ pc' = IF IsException(st.exc) THEN "handle" ELSE "exit"
    /\ UNCHANGED <<buffer, sys_stdout, sys_stderr, sys_displayhook, variables,
                   code, mod_body, code_objs, save, at_entry, escaped, nruns,
                   typed>>
    /\ UNCHANGED entryvars

\* one turn of "for code_obj in code_objs: exec(code_obj, self.namespace)"
RunExec ==
    /\ pc = "exec"
    /\ idx <= Len(code_objs)
    /\ LET st == Exec(code_objs[idx], sys_displayhook,
                      [ns |-> namespace, underscore |-> underscore,
                       display |-> display, exc |-> NoExc])
       IN  /\ namespace' = st.ns
           /\ underscore' = st.underscore
           /\ display' = st.display
           /\ exc' = st.exc
           /\ IF st.exc = NoExc
              THEN /\ idx' = idx + 1
                   /\ pc' = IF idx + 1 > Len(code_objs) THEN "exit" ELSE "exec"
              ELSE /\ idx' = idx
                   /\ pc' = IF IsException(st.exc) THEN "handle" ELSE "exit"
    /\ UNCHANGED <<buffer, sys_stdout, sys_stderr, sys_displayhook, variables,
                   code, mod_body, code_objs, save, at_entry, escaped, nruns,
                   typed>>
    /\ UNCHANGED entryvars

\* except Exception as e: the full traceback goes to the scrollback
RunHandle ==
    /\ pc = "handle"
    /\ display' = write(display, ReportTraceback(exc))
    /\ exc' = NoExc
    /\ pc' = "exit"
    /\ UNCHANGED <<buffer, namespace, underscore, sys_stdout, sys_stderr,
                   sys_displayhook, variables, code, mod_body, code_objs,
                   idx, save, at_entry, escaped, nruns, typed>>
    /\ UNCHANGED entryvars

\* capture_output() restoring after the yield without a finally clause
CaptureExit_NoFinally ==
    /\ pc = "exit"
    /\ IF exc = NoExc
       THEN /\ sys_stdout' = save.stdout
            /\ sys_stderr' = save.stderr
            /\ sys_displayhook' = save.displayhook
       ELSE UNCHANGED <<sys_stdout, sys_stderr, sys_displayhook>>
    /\ escaped' = exc
    /\ exc' = NoExc
    /\ pc' = "editing"
    /\ UNCHANGED <<buffer, display, namespace, underscore, variables, code,
                   mod_body, code_objs, idx, save, at_entry, nruns, typed>>
    /\ UNCHANGED entryvars

\* capture_output().__exit__: the finally clause restores what was saved;
\* an exception still in flight then leaves run()
CaptureExit ==
    /\ pc = "exit"
    /\ sys_stdout' = save.stdout
    /\ sys_stderr' = save.stderr
    /\ sys_displayhook' = save.displayhook
    /\ escaped' = exc
    /\ exc' = NoExc
    /\ pc' = "editing"
    /\ UNCHANGED <<buffer, display, namespace, underscore, variables, code,
                   mod_body, code_objs, idx, save, at_entry, nruns, typed>>
    /\ UNCHANGED entryvars

Next ==
    \/ \E t \in Texts : SetText(t)
    \/ RunEcho
    \/ RunParse
    \/ RunEmpty
    \/ RunCompileSplit
    \/ RunCompileWhole
    \/ RunClear
    \/ CaptureEnter
    \/ RunExec
    \/ RunHandle
    \/ CaptureExit

Spec == Init /\ [][Next]_vars

----------------------------------------------------------------------------
\* Completion: the user types before the cursor, and a completion request
\* takes the dotted name from the text before the cursor

\* QPlainTextEdit.keyPressEvent inserts the typed character
TypeChar(ch) ==
    /\ Len(cursor_text) < MaxCodeLen
    /\ cursor_text' = Append(cursor_text, ch)
    /\ dotted' = NotCalled
    /\ tokens' = <<>>
    /\ UNCHANGED <<compvars, histvars, runvars>>

\* dotted_name = get_dotted_name(self.textToCursor())
DottedName ==
    /\ dotted = NotCalled
    /\ dotted' = get_dotted_name(cursor_text)
    /\ tokens' = tokenize_maybe_incomplete(cursor_text).toks
    /\ UNCHANGED <<cursor_text, compvars, histvars, runvars>>

NextDotted ==
    \/ \E ch \in TypedChars : TypeChar(ch)
    \/ DottedName

\* a widget constructed without variables
InitEntry ==
    /\ Init
    /\ ~variables.given
    /\ sys_stdout = "sys.__stdout__"

SpecDotted == InitEntry /\ [][NextDotted]_vars

-----------------------------------------------------------------------------
\* Names and attributes the completer looks up (find_child_names)

\* the characters of a name of the namespace
Spell(n) ==
    CASE n = "adeqt" -> <<"a", "d", "e", "q", "t">>
      [] n = "x" -> <<"x">>
      [] n = "y" -> <<"y">>
      [] n = "_" -> <<"_">>
      [] n = "len" -> <<"l", "e", "n">>
      [] OTHER -> <<"_", "_", "b", "u", "i", "l", "t", "i", "n", "s", "_", "_">>

\* ord(c)
Ord(c) == CHOOSE i \in 1..Len(CodePoints) : CodePoints[i] = c

\* str.lower()
lower(s) == [i \in 1..Len(s) |-> IF s[i] = "Y" THEN "y" ELSE s[i]]

\* s < t for two strings
StrLt(s, t) ==
    \E k \in 1..Len(t) :
        /\ k - 1 <= Len(s)
        /\ SubSeq(s, 1, k - 1) = SubSeq(t, 1, k - 1)
        /\ k > Len(s) \/ Ord(s[k]) < Ord(t[k])

\* len(n) - len(n.lstrip('_'))
Underscores(n) == RunEnd(n, 0, {"_"})

\* key(m) < key(n) for the key (len(n) - len(n.lstrip('_')), n.lower())
KeyLt(m, n) ==
    \/ Underscores(m) < Underscores(n)
    \/ Underscores(m) = Underscores(n) /\ StrLt(lower(m), lower(n))

\* m sorts before n: by the strings themselves, or with by_key by the key
\* of line 200
Before(m, n, by_key) == IF by_key THEN KeyLt(m, n) ELSE StrLt(m, n)

\* sorted(names), or with by_key sorted(names, key=...): equal elements keep
\* their order
sorted(names, by_key) ==
    [r \in 1..Len(names) |->
        names[CHOOSE i \in 1..Len(names) :
                Cardinality({j \in 1..Len(names) :
                    \/ Before(names[j], names[i], by_key)
                    \/ ~Before(names[i], names[j], by_key) /\ j < i}) = r - 1]]

\* the objects attribute lookup leads to that the namespace does not hold
Method == "bound method"
Function == "built-in function"

\* dir(obj), cut down to a few names of each type
Dir(obj) ==
    CASE obj \in {Int1, Int7} -> << <<"_", "_", "a", "b", "s", "_", "_">>,
                                    <<"r", "e", "a", "l">> >>
      [] obj = HostObj -> << <<"Y">>, <<"_", "_", "x">>, <<"_", "x">>, <<"x">> >>
      [] obj = Widget -> << <<"r", "u", "n">> >>
      [] OTHER -> << <<"_", "_", "d", "o", "c", "_", "_">> >>

\* getattr(obj, name, missing)
getattr(obj, name) ==
    CASE obj \in {Int1, Int7} /\ name = <<"r", "e", "a", "l">> -> obj
      [] obj = HostObj /\ name = <<"x">> -> Int7
      [] obj = HostObj /\ name \in { <<"Y">>, <<"_", "_", "x">>, <<"_", "x">> } -> None
      [] obj = Widget /\ name = <<"r", "u", "n">> -> Method
      [] OTHER -> IF \E i \in 1..Len(Dir(obj)) : Dir(obj)[i] = name
                  THEN Method ELSE Missing

\* dir(builtins), cut down to len and, once displayhook has set it, _
BuiltinsDir(und) ==
    IF und = Missing THEN << <<"l", "e", "n">> >>
    ELSE << <<"_">>, <<"l", "e", "n">> >>

\* getattr(builtins, name, missing)
BuiltinsAttr(name, und) ==
    CASE name = <<"l", "e", "n">> -> Function
      [] name = <<"_">> -> und
      [] OTHER -> Missing

\* list(self.namespace)
NamespaceKeys(ns) ==
    LET all == <<"adeqt", "x", "y", "__builtins__", "_", "len">>
        bound == SelectSeq(all, LAMBDA n : ns[n] # Missing)
    IN  [i \in 1..Len(bound) |-> Spell(bound[i])]

\* self.namespace.get(name, missing)
NamespaceGet(ns, name) ==
    IF \E n \in Names : Spell(n) = name
    THEN ns[CHOOSE n \in Names : Spell(n) = name]
    ELSE Missing

\* the loop of find_child_names over name_parts[1:]
RECURSIVE FollowAttrs(_, _)
FollowAttrs(obj, names) ==
    IF obj = Missing \/ names = <<>> THEN obj
    ELSE FollowAttrs(getattr(obj, Head(names)), Tail(names))

\* find_child_names looking in builtins before the namespace
find_child_names_BuiltinsFirst(name_parts, ns, und) ==
    IF name_parts = <<>>
    THEN sorted(NamespaceKeys(ns) \o BuiltinsDir(und), FALSE)
    ELSE LET b == BuiltinsAttr(name_parts[1], und)
             first == IF b # Missing THEN b ELSE NamespaceGet(ns, name_parts[1])
             obj == FollowAttrs(first, Tail(name_parts))
         IN  IF obj = Missing THEN <<>> ELSE sorted(Dir(obj), TRUE)

\* CodeEntry.find_child_names(name_parts) for the namespace ns and
\* builtins._ = und
find_child_names(name_parts, ns, und) ==
    IF name_parts = <<>>
    THEN sorted(NamespaceKeys(ns) \o BuiltinsDir(und), FALSE)
    ELSE LET n == NamespaceGet(ns, name_parts[1])
             first == IF n # Missing THEN n ELSE BuiltinsAttr(name_parts[1], und)
             obj == FollowAttrs(first, Tail(name_parts))
         IN  IF obj = Missing THEN <<>> ELSE sorted(Dir(obj), TRUE)

-----------------------------------------------------------------------------
\* Completion: keyPressEvent, show_completions and the completer's popup

MaxKeys == 2

\* the keys pressed: the ones with a text are named by it
Keys == {"x", "_", ".", " ", "Tab", "Escape", "Backspace"}

\* e.text() is one printable character
HasText(k) == k \in {"x", "_", ".", " "}

\* the key puts text into the entry: a character, a line end, or, with
\* the popup open, the rest of a candidate
InsertsText(k) == HasText(k) \/ (k = "Return") \/ (k = "Tab" /\ popup)

\* eow = "~!@#$%^&*()_+{}|:\"<>?,./;'[]\\-="
eow == {"~", "!", "@", "#", "$", "%", "^", "&", "*", "(", ")", "_", "+", "{",
        "}", "|", ":", "\"", "<", ">", "?", ",", ".", "/", ";", "'", "[", "]",
        "\\", "-", "="}

\* n.startswith(prefix)
startswith(n, prefix) ==
    Len(prefix) <= Len(n) /\ SubSeq(n, 1, Len(prefix)) = prefix

\* completer.completionModel(): the candidates that start with the prefix
completionModel(m, prefix) == SelectSeq(m, LAMBDA n : startswith(n, prefix))

\* lines 153-164 never recording the names they listed the attributes of
UpdateCompleter_KeyNotStored(attr_of, prefix) ==
    /\ recomputed' = (~complete_attrs_key.set
                        \/ complete_attrs_key.attr_of # attr_of)
    /\ model' = IF recomputed'
                THEN find_child_names(attr_of, namespace, underscore)
                ELSE model
    /\ UNCHANGED complete_attrs_key
    /\ completion_prefix' = prefix
    /\ popup' = (completionModel(model', prefix) # <<>>)

\* lines 153-164 of show_completions for *attr_of, prefix = dotted_name: the
\* list is recomputed when attr_of is not the stored key, the prefix is set,
\* and c.complete(cr) shows the popup when a candidate starts with the
\* prefix and hides it otherwise
UpdateCompleter(attr_of, prefix) ==
    /\ recomputed' = (~complete_attrs_key.set
                        \/ complete_attrs_key.attr_of # attr_of)
    /\ model' = IF recomputed'
                THEN find_child_names(attr_of, namespace, underscore)
                ELSE model
    /\ complete_attrs_key' = [set |-> TRUE, attr_of |-> attr_of]
    /\ completion_prefix' = prefix
    /\ popup' = (completionModel(model', prefix) # <<>>)

\* CodeEntry.show_completions() with text before the cursor.  An error of
\* get_dotted_name leaves the completer as it was.
show_completions(text) ==
    /\ dotted' = get_dotted_name(text)
    /\ IF dotted'.raises # "none"
       THEN /\ tokens' = <<>>
            /\ UNCHANGED <<complete_attrs_key, model, completion_prefix,
                           popup, recomputed>>
       ELSE /\ tokens' = tokenize_maybe_incomplete(text).toks
            /\ UpdateCompleter(Front(dotted'.value), Last(dotted'.value))

\* super().keyPressEvent(e): the text edit's own handling of a key
TextEdit(text, k) ==
    CASE HasText(k) -> Append(text, k)
      [] k = "Return" -> Append(text, "\n")
      [] k = "Backspace" -> IF text = <<>> THEN text ELSE Front(text)
      [] OTHER -> text

\* CodeEntry.insertCompletion(completion): the cursor is at the end of the
\* word being completed, where it stays after the two moves
insertCompletion(text, completion) ==
    text \o From(completion, Len(completion_prefix))

\* CodeEntry.keyPressEvent(e) for a key without Ctrl or Alt.  With the popup
\* open, Return, Escape and Tab are left to the popup: it closes, and on
\* Return and Tab the current candidate, any of the listed ones, goes to
\* insertCompletion.
keyPressEvent(k) ==
    /\ pc = "editing"
    /\ InsertsText(k) => Len(cursor_text) < MaxKeys
    /\ k = "Backspace" => Len(cursor_text) <= MaxKeys
    /\ last_key' = k
    /\ IF ~popup
       THEN IF k = "Tab"
            THEN /\ show_completions(cursor_text)
                 /\ UNCHANGED cursor_text
            ELSE /\ cursor_text' = TextEdit(cursor_text, k)
                 /\ dotted' = NotCalled
                 /\ tokens' = <<>>
                 /\ UNCHANGED <<complete_attrs_key, model, completion_prefix,
                                popup, recomputed>>
       ELSE IF k \in {"Return", "Escape", "Tab"}
            THEN /\ popup' = FALSE
                 /\ IF k = "Escape"
                    THEN UNCHANGED cursor_text
                    ELSE \E i \in 1..Len(completionModel(model, completion_prefix)) :
                           cursor_text' = insertCompletion(cursor_text,
                               completionModel(model, completion_prefix)[i])
                 /\ dotted' = NotCalled
                 /\ tokens' = <<>>
                 /\ UNCHANGED <<complete_attrs_key, model, completion_prefix,
                                recomputed>>
            ELSE /\ cursor_text' = TextEdit(cursor_text, k)
                 /\ IF k \notin eow /\ k # "Backspace"
                    THEN show_completions(TextEdit(cursor_text, k))
                    ELSE /\ popup' = FALSE
                         /\ dotted' = NotCalled
                         /\ tokens' = <<>>
                         /\ UNCHANGED <<complete_attrs_key, model,
                                        completion_prefix, recomputed>>
    /\ UNCHANGED <<histvars, runvars>>

\* the entry of a widget: every key, no run
InitKeys ==
    /\ Init
    /\ sys_stdout = "sys.__stdout__"

NextKeys == \E k \in Keys : keyPressEvent(k)

SpecKeys == InitKeys /\ [][NextKeys]_vars

\* the texts run between completion requests: an assignment, a deletion
\* and an expression, each in one line
RunTexts == { <<"x=1">>, <<"del x">>, <<"x">> }

\* the texts before the cursor that completion is asked for
RequestTexts ==
    { <<>>, <<"x">>, <<"x", ".">>, <<"_", ".">>, <<"_", ".", "x", ".">>,
      <<"_", ".", "_", ".">> }

\* a completion request: the text before the cursor has become t, and
\* keyPressEvent calls show_completions()
ShowCompletions(t) ==
    /\ pc = "editing"
    /\ cursor_text' = t
    /\ last_key' = "Tab"
    /\ show_completions(t)
    /\ UNCHANGED <<histvars, runvars>>

\* a widget constructed without variables, or with a host object as _ and
\* an int as len
InitComplete ==
    /\ InitKeys
    /\ variables.given => variables.map["_"] # Missing

NextComplete ==
    \/ \E t \in RunTexts : SetText(t)
    \/ \E t \in RequestTexts : ShowCompletions(t)
    \/ RunEcho
    \/ RunParse
    \/ RunCompileSplit
    \/ RunCompileWhole
    \/ RunClear
    \/ CaptureEnter
    \/ RunExec
    \/ RunHandle
    \/ CaptureExit

SpecComplete == InitComplete /\ [][NextComplete]_vars

-----------------------------------------------------------------------------
\* History navigation of the entry (hist_up, hist_down, hist_index)

\* everything of the widget but the buffer, the completer and the history
nothistvars == <<display, namespace, underscore, sys_stdout, sys_stderr,
                 sys_displayhook, variables, pc, code, mod_body, code_objs,
                 idx, exc, save, at_entry, escaped, nruns, typed,
                 cursor_text, dotted, tokens, compvars>>

\* the texts entered while looking at the history: at most one line
HistTexts == {t \in Texts : Len(t) <= 1}

\* history[i] for a negative i, as Python indexes a list from its end
HistEntry(i) == history[Len(history) + 1 + i]

\* entry.setPlainText(text) while the in-progress text is shown
setPlainText(t) ==
    /\ pc = "editing"
    /\ hist_index = 0
    /\ buffer' = t
    /\ UNCHANGED <<histvars, nothistvars>>

\* the buffer is submitted: it becomes the newest entry of the history,
\* the entry is cleared and shows the in-progress text again
HistSubmit ==
    /\ pc = "editing"
    /\ buffer # <<>>
    /\ Len(history) < MaxHist
    /\ history' = Append(history, buffer)
    /\ buffer' = <<>>
    /\ hist_index' = 0
    /\ hist_pending' = <<>>
    /\ UNCHANGED nothistvars

\* hist_up() going past the oldest entry
hist_up_Unclamped ==
    /\ pc = "editing"
    /\ hist_index' = hist_index - 1
    /\ hist_pending' = IF hist_index = 0 THEN buffer ELSE hist_pending
    /\ buffer' = IF -hist_index' <= Len(history)
                   THEN history[Len(history) + 1 + hist_index'] ELSE <<>>
    /\ UNCHANGED <<history, nothistvars>>

\* entry.hist_up(): the previous submission, no further than the oldest
hist_up ==
    /\ pc = "editing"
    /\ IF -hist_index < Len(history)
       THEN /\ hist_pending' = IF hist_index = 0 THEN buffer ELSE hist_pending
            /\ hist_index' = hist_index - 1
            /\ buffer' = history[Len(history) + hist_index]
       ELSE UNCHANGED <<buffer, hist_index, hist_pending>>
    /\ UNCHANGED <<history, nothistvars>>

\* entry.hist_down(): the next submission, the in-progress text at index 0
hist_down ==
    /\ pc = "editing"
    /\ IF hist_index < 0
       THEN /\ hist_index' = hist_index + 1
            /\ buffer' = IF hist_index = -1 THEN hist_pending
                           ELSE history[Len(history) + 2 + hist_index]
            /\ UNCHANGED hist_pending
       ELSE UNCHANGED <<buffer, hist_index, hist_pending>>
    /\ UNCHANGED <<history, nothistvars>>

NextHist ==
    \/ \E t \in HistTexts : setPlainText(t)
    \/ HistSubmit
    \/ hist_up
    \/ hist_down

SpecHist == Init /\ [][NextHist]_vars

----------------------------------------------------------------------------
\* Properties of the execution pipeline (specification Spec)

\* the positions of run() inside "with self.capture_output()"
ExecPcs == {"exec", "handle", "exit"}

\* the text parses and each of its statements compiles
CompilesAll(c) ==
    /\ ParseError(c) = NoExc
    /\ \A i \in 1..Len(ParseBody(c)) : ~NotCompilable(ParseBody(c)[i])

\* C1: run() leaves the entered-code buffer as it was when parsing or
\* compiling fails, clears it only when the text parsed and every unit
\* compiled (or the program has no statement), and clears it before any unit
\* runs, so that a runtime failure finds it empty.
C1_BufferClearedOnlyAfterCompile ==
    [][ /\ nruns' # nruns => buffer' = buffer
        /\ (pc # "editing" /\ pc' = "editing")
             => buffer' = IF CompilesAll(code) THEN <<>> ELSE at_entry.buffer
        /\ (pc # "editing" /\ buffer' # buffer)
             => /\ CompilesAll(code)
                /\ buffer' = <<>>
                /\ idx = 0
                /\ namespace = at_entry.namespace
                /\ underscore = at_entry.underscore
        /\ pc' \in ExecPcs => buffer' = <<>>
      ]_vars

\* a runtime failure is being handled with the buffer already empty, after
\* an earlier run kept its text on a syntax error
C1_Witness ==
    /\ pc = "handle"
    /\ buffer = <<>>
    /\ at_entry.buffer # <<>>
    /\ \E i \in 1..Len(at_entry.display) : at_entry.display[i] = "SyntaxError: "

\* C2: whichever way run() is left, sys.stdout, sys.stderr and
\* sys.displayhook are the objects they were when it was entered; they are
\* the scrollback sink and the widget's hook only while the compiled units
\* are being executed.
C2_StreamsRestored ==
    /\ pc \in ExecPcs
         => /\ sys_stdout = OutputStream
            /\ sys_stderr = OutputStream
            /\ sys_displayhook = WidgetHook
    /\ pc \notin ExecPcs
         => /\ Streams = at_entry.streams
            /\ sys_stdout # OutputStream
            /\ sys_stderr # OutputStream
            /\ sys_displayhook # WidgetHook

\* run() was left by an exception it does not catch, and the host's stdout
\* is back
C2_Witness ==
    /\ pc = "editing"
    /\ escaped.type = "SystemExit"
    /\ sys_stdout = "host stdout"
    /\ sys_displayhook = OrigHook

\* the scrollback text written since run() was entered holds a traceback
TracebackSinceEntry(d) ==
    \E i \in (Len(at_entry.display) + 1)..Len(d) :
        d[i] = "Traceback (most recent call last):"

\* C3: when a unit raises during run(), a full traceback is appended to the
\* scrollback, no later unit runs, the buffer is already cleared, and run()
\* returns to the editing state.
C3_RuntimeFaultReported ==
    [][ (pc = "exit" /\ pc' = "editing" /\ idx <= Len(code_objs))
          => /\ TracebackSinceEntry(display')
             /\ buffer' = <<>>
             /\ escaped' = NoExc
      ]_vars

\* C4: for every buffer text run() first appends the echo to the scrollback:
\* it starts with the prompt '>>> ' and ends with one newline, and parsing
\* comes after it.
C4_EchoAlways ==
    [][ nruns' # nruns
          => /\ Len(display') > Len(display)
             /\ SubSeq(display', 1, Len(display)) = display
             /\ display'[Len(display) + 1] = ">>> "
             /\ Last(display') = NL
             /\ pc' = "parse"
      ]_vars

\* C5: no fault raised inside run() leaves it.
C5_NothingEscapes == escaped = NoExc

\* the statement binds or deletes the name
Touches(stmt, n) == n = "x" /\ stmt \in {"x=1", "del x"}

\* the last statement of body that binds or deletes x is the assignment
AssignsLast(body) ==
    \E i \in 1..Len(body) :
        /\ body[i] = "x=1"
        /\ \A k \in (i + 1)..Len(body) : body[k] # "del x"

\* C6: the session namespace is one mapping shared by all runs: a binding
\* changes only while a unit is executed, and only when a statement of that
\* unit binds or deletes the name (or exec adds __builtins__); an assignment
\* that ran stays in the namespace, and an expression evaluated later sees
\* the binding that is there.
C6_NamespaceShared ==
    [][ /\ \A n \in Names :
             namespace'[n] # namespace[n]
               => /\ pc = "exec"
                  /\ \/ /\ n = "__builtins__"
                        /\ namespace[n] = Missing
                        /\ namespace'[n] = BuiltinsModule
                     \/ \E i \in 1..Len(code_objs[idx].body) :
                            Touches(code_objs[idx].body[i], n)
        /\ (pc = "exec" /\ exc' = NoExc /\ AssignsLast(code_objs[idx].body))
             => namespace'["x"] = Int1
        /\ (pc = "exec" /\ code_objs[idx] = CodeObj(<<"x">>, "single")
                        /\ namespace["x"] # Missing)
             => display' = display \o <<Repr(namespace["x"]), NL>>
      ]_vars

\* the second run echoed the value the first run had bound to x
C6_Witness ==
    /\ nruns = 2
    /\ pc = "editing"
    /\ code = <<"x">>
    /\ variables.map["x"] = Missing
    /\ at_entry.namespace["x"] = Int1
    /\ Len(display) >= 2
    /\ SubSeq(display, Len(display) - 1, Len(display)) = <<"1", NL>>

\* C7: the program is split in two units exactly when its last statement is
\* an expression statement: the program without it, then the expression on
\* its own in "single" mode; any other program is one unit.  The units run
\* in that order, and a unit in "exec" mode echoes no value.
C7_SplitTrailingExpr ==
    /\ [](pc \in {"clear", "enter"} \cup ExecPcs
            => LET body == ParseBody(code)
               IN  /\ body # <<>>
                   /\ code_objs =
                        IF IsExpr(Last(body))
                        THEN <<CodeObj(Front(body), "exec"),
                               CodeObj(<<Last(body)>>, "single")>>
                        ELSE <<CodeObj(body, "exec")>>)
    /\ [][ /\ (pc # "exec" /\ pc' = "exec") => idx' = 1
           /\ (pc = "exec" /\ exc' = NoExc) => idx' = idx + 1
           /\ (pc = "exec" /\ exc' # NoExc) => (idx' = idx /\ pc' # "exec")
           /\ (pc = "exec" /\ code_objs[idx].mode = "exec")
                => (display' = display /\ underscore' = underscore)
         ]_vars

\* both units of a split program have run, the program part not empty
C7_Witness ==
    /\ pc = "exit"
    /\ Len(code_objs) = 2
    /\ idx = 3
    /\ code_objs[1].body # <<>>
    /\ underscore # Missing

\* the value of an expression statement that does not raise
ExprValue(stmt, ns) == IF stmt = "None" THEN None ELSE ns["x"]

\* C8: the value-echo hook called with a value other than None stores it in
\* builtins._ and appends repr(value) and a newline to the scrollback; called
\* with None it changes neither.  Nothing else changes builtins._.
C8_DisplayHook ==
    [][ /\ (pc = "exec" /\ code_objs[idx].mode = "single" /\ exc' = NoExc)
             => LET v == ExprValue(code_objs[idx].body[1], namespace)
                IN  IF v = None
                    THEN underscore' = underscore /\ display' = display
                    ELSE /\ underscore' = v
                         /\ display' = display \o <<Repr(v), NL>>
        /\ underscore' # underscore
             => (pc = "exec" /\ code_objs[idx].mode = "single")
      ]_vars

\* None was echoed after an earlier result, which builtins._ still holds
C8_Witness ==
    /\ pc = "exit"
    /\ exc = NoExc
    /\ Last(code_objs).body = <<"None">>
    /\ idx = 3
    /\ underscore # Missing
    /\ at_entry.underscore = underscore

\* the scrollback text d is what run() found, the echo of c, and one
\* exception-only report of a SyntaxError
EchoAndOneReport(d, c) ==
    LET n == Len(at_entry.display) + Len(add_prompt(c))
        r == SubSeq(d, n + 1, Len(d))
    IN  /\ Len(d) > n
        /\ SubSeq(d, 1, n) = at_entry.display \o add_prompt(c)
        /\ \A i \in 1..Len(r) : r[i] # "Traceback (most recent call last):"
        /\ Cardinality({i \in 1..Len(r) : r[i] = "SyntaxError: "}) = 1
        /\ Last(r) = NL

\* C12: no unit runs unless the text parsed and every unit compiled.  On a
\* parse failure or a compile failure of either unit the namespace,
\* builtins._ and the streams are as run() found them, the buffer is kept,
\* and the scrollback got the echo and one exception-only report; a compile
\* failure of the expression unit keeps the program unit from running too.
C12_NoExecUnlessCompiled ==
    /\ [](pc \in ExecPcs => CompilesAll(code))
    /\ [][ (pc # "editing" /\ pc' = "editing" /\ ~CompilesAll(code))
             => /\ namespace' = at_entry.namespace
                /\ underscore' = at_entry.underscore
                /\ Streams' = at_entry.streams
                /\ buffer' = at_entry.buffer
                /\ EchoAndOneReport(display', code)
          ]_vars

\* the expression unit did not compile: the assignment before it never ran
C12_Witness ==
    /\ pc = "editing"
    /\ nruns = 1
    /\ code = <<"x=1", NL, "yield">>
    /\ buffer = code
    /\ namespace["x"] = Missing
    /\ Last(display) = NL
    /\ \E i \in 1..Len(display) : display[i] = "'yield' outside function"

\* C11: hist_index is 0 while the in-progress text is edited and otherwise
\* points at the submission shown; hist_up steps to the previous submission
\* (-1 is the newest) and never past the oldest; hist_down steps back toward
\* 0, never past it, and at 0 the buffer is the in-progress text as it was
\* when the navigation started.
C11_HistoryNavigation ==
    /\ [](hist_index \in -Len(history)..0)
    /\ [](hist_index # 0 => buffer = HistEntry(hist_index))
    /\ [][ /\ hist_index' \in {hist_index - 1, hist_index, hist_index + 1}
               \/ hist_index' = 0
           /\ (hist_index' # hist_index /\ hist_index' # 0)
                  => (buffer' = HistEntry(hist_index') /\ history' = history)
           /\ (hist_index = 0 /\ hist_index' = -1) => hist_pending' = buffer
           /\ (hist_index # 0 /\ hist_index' # 0)
                  => hist_pending' = hist_pending
           /\ (hist_index = -1 /\ hist_index' = 0 /\ history' = history)
                  => buffer' = hist_pending
         ]_vars

\* two submissions, the second being edited when hist_up went to the oldest
C11_Witness ==
    /\ Len(history) = 2
    /\ hist_index = -2
    /\ buffer = history[1]
    /\ history[1] # history[2]
    /\ hist_pending # <<>>

\* s without its trailing blanks and line ends
RECURSIVE StripRight(_)
StripRight(s) ==
    IF s # <<>> /\ Last(s) \in {" ", "\t", "\n"} THEN StripRight(Front(s)) ELSE s

\* the text of c from the position (row, col) of a token's end onwards
Remainder(c, end) ==
    LET lines == splitlines(c)
        before == Join([i \in 1..(end[1] - 1) |-> lines[i]])
    IN  From(c, Len(before) + end[2])

\* C13: when the tokenizer fails on a truncated text, tokenize_maybe_incomplete
\* does not raise; it yields the tokens produced before the failure and then,
\* if the text left after the last of them is not blank, exactly one more
\* token whose text is that remainder (blanks at its end aside), otherwise
\* nothing more.
C13_IncompleteToken ==
    LET g == generate_tokens(cursor_text)
        last_end == IF g.toks = <<>> THEN <<1, 0>> ELSE Last(g.toks).end
        rest == Remainder(cursor_text, last_end)
    IN  (dotted # NotCalled /\ g.err = "TokenError")
          => /\ dotted.raises = "none"
             /\ IF rest = <<>> \/ isspace(rest)
                THEN tokens = g.toks
                ELSE /\ Len(tokens) = Len(g.toks) + 1
                     /\ SubSeq(tokens, 1, Len(g.toks)) = g.toks
                     /\ StripRight(Last(tokens).string) = StripRight(rest)

\* C14: a lexical error that is not a truncation does not leave the
\* completion request as an exception: the dotted name comes back empty.
C14_OtherErrorsContained ==
    (dotted # NotCalled /\ generate_tokens(cursor_text).err = "IndentationError")
      => dotted = [raises |-> "none", value |-> << <<>> >>]

\* n1.n2.....nk for the tuple (n1,...,nk)
RECURSIVE JoinDots(_)
JoinDots(names) ==
    IF Len(names) <= 1 THEN Join(names)
    ELSE Head(names) \o <<".">> \o JoinDots(Tail(names))

IsSuffix(s, t) == Len(s) <= Len(t) /\ SubSeq(t, Len(t) - Len(s) + 1, Len(t)) = s

\* C15: get_dotted_name returns only the unbroken chain name(.name)* that
\* ends the text: two names are next to each other in the result only when
\* one dot and nothing else stood between them, so the result written with
\* dots is how the text before the cursor ends.
C15_OnlyTrailingChain ==
    (dotted # NotCalled /\ dotted.raises = "none")
      => IsSuffix(JoinDots(dotted.value), StripRight(cursor_text))

\* every binding the caller supplied is in the namespace
CallerBindingsKept ==
    \A n \in Names :
        (variables.given /\ variables.map[n] # Missing)
          => namespace[n] = variables.map[n]

\* C9 as stated: after construction the namespace binds adeqt to the widget
\* and holds every caller-supplied binding, also when the caller's mapping
\* has the key adeqt.
C9_Original ==
    nruns = 0 => (namespace["adeqt"] = Widget /\ CallerBindingsKept)

\* C9 amended: after construction the namespace holds every caller-supplied
\* binding, and binds adeqt to the widget unless the caller's mapping has the
\* key adeqt, whose binding then replaces the widget's.
C9_Amended ==
    nruns = 0
      => /\ CallerBindingsKept
         /\ ~(variables.given /\ variables.map["adeqt"] # Missing)
              => namespace["adeqt"] = Widget

\* a widget constructed with a mapping that has the key adeqt
C9_Witness ==
    /\ nruns = 0
    /\ variables.given
    /\ variables.map["adeqt"] = HostObj
    /\ namespace["adeqt"] = HostObj
    /\ namespace["x"] = Int7

----------------------------------------------------------------------------
\* Properties of the dotted-name extraction (specification SpecDotted)

\* the pieces of s between its dots
RECURSIVE SplitDots(_)
SplitDots(s) ==
    IF \E i \in 1..Len(s) : s[i] = "."
    THEN LET i == CHOOSE j \in 1..Len(s) :
                     s[j] = "." /\ \A k \in 1..(j - 1) : s[k] # "."
         IN  <<SubSeq(s, 1, i - 1)>> \o SplitDots(SubSeq(s, i + 1, Len(s)))
    ELSE <<s>>

\* str.isidentifier() over Chars
IsIdentifier(s) ==
    /\ s # <<>>
    /\ IsWordChar(s[1]) /\ ~IsDigit(s[1])
    /\ \A i \in 1..Len(s) : IsWordChar(s[i])

\* the text is n1.n2.....nk
IsChain(s) == \A i \in 1..Len(SplitDots(s)) : IsIdentifier(SplitDots(s)[i])

\* the tokens other than the line ends, indentation and end marker
Significant(toks) ==
    SelectSeq(toks, LAMBDA t : t.type \notin {"NEWLINE", "NL", "ENDMARKER",
                                              "INDENT", "DEDENT"})

\* C10: get_dotted_name of a chain n1.n2.....nk of identifiers is
\* (n1,...,nk); of the chain followed by a dot it is (n1,...,nk,''); of the
\* empty text, or a text whose last significant token is neither a name nor
\* a dot, it is ('',).  The result is never empty and only its last element
\* can be ''.
C10_DottedName ==
    dotted # NotCalled
      => /\ IsChain(cursor_text)
              => dotted = [raises |-> "none", value |-> SplitDots(cursor_text)]
         /\ (cursor_text # <<>> /\ Last(cursor_text) = "."
                                /\ IsChain(Front(cursor_text)))
              => dotted = [raises |-> "none",
                           value |-> Append(SplitDots(Front(cursor_text)), <<>>)]
         /\ (dotted.raises = "none"
               /\ LET sig == Significant(tokenize_maybe_incomplete(cursor_text).toks)
                  IN  sig = <<>> \/ Last(sig).type \notin {"NAME", "DOT"})
              => dotted.value = << <<>> >>
         /\ cursor_text = <<>> => dotted = [raises |-> "none", value |-> << <<>> >>]
         /\ dotted.raises = "none"
              => /\ Len(dotted.value) >= 1
                 /\ \A i \in 1..(Len(dotted.value) - 1) : dotted.value[i] # <<>>

\* the dotted name of a chain of two names followed by a dot
C10_Witness ==
    /\ cursor_text = <<"a", ".", "a", ".">>
    /\ dotted.value = << <<"a">>, <<"a">>, <<>> >>

-----------------------------------------------------------------------------
\* Claims about the completer

\* a step in which show_completions has run to its end
RequestStep ==
    /\ pc = "editing"
    /\ UNCHANGED runvars
    /\ dotted' # NotCalled
    /\ dotted'.raises = "none"

\* the set of the elements of a sequence
Range(s) == { s[i] : i \in 1..Len(s) }

\* C16: when show_completions lists the names for an empty attr_of, the
\* list is in strictly ascending order, so no name is listed twice, and its
\* names are those bound in the namespace together with those of builtins.
C16_GlobalNamesOnce ==
    [][ (RequestStep /\ Len(dotted'.value) = 1 /\ recomputed')
          => /\ \A i \in 1..(Len(model') - 1) : StrLt(model'[i], model'[i + 1])
             /\ Range(model') =
                  { Spell(n) : n \in { m \in Names : namespace[m] # Missing } }
                    \cup Range(BuiltinsDir(underscore)) ]_vars

C18_RecomputeOnKeyChange ==
    [][ RequestStep
          => LET d == get_dotted_name(cursor_text').value
                 attr_of == Front(d)
                 differs == \/ ~complete_attrs_key.set
                            \/ complete_attrs_key.attr_of # attr_of
             IN  /\ recomputed' = differs
                 /\ differs
                      => /\ model' = find_child_names(attr_of, namespace, underscore)
                         /\ complete_attrs_key' = [set |-> TRUE, attr_of |-> attr_of]
                 /\ ~differs => UNCHANGED <<model, complete_attrs_key>>
                 /\ completion_prefix' = Last(d) ]_vars

\* a request for x after one for the empty text: the key [] is the same, the
\* list was kept and the prefix became x
C18_Witness ==
    /\ cursor_text = <<"x">>
    /\ dotted # NotCalled
    /\ complete_attrs_key = [set |-> TRUE, attr_of |-> <<>>]
    /\ recomputed = FALSE
    /\ completion_prefix = <<"x">>

\* a step of keyPressEvent for the key k
KeyStep(k) ==
    /\ pc = "editing"
    /\ UNCHANGED runvars
    /\ last_key' = k

\* no candidate of the list starts with the prefix
NothingMatches == completionModel(model, completion_prefix) = <<>>

\* C19: with the popup closed, Tab inserts nothing and opens the popup
\* (unless no candidate matches); with the popup open, a typed word
\* character, the underscore included, is inserted and leaves the popup open
\* on the refreshed candidates (unless none matches), while Escape,
\* Backspace and a typed character that is not a word character, punctuation
\* or whitespace, close the popup and insert nothing but the typed character.
C19_PopupStateMachine ==
    [][ /\ (~popup /\ KeyStep("Tab"))
           => /\ cursor_text' = cursor_text
              /\ popup' \/ NothingMatches'
        /\ (popup /\ \E k \in {"x", "_"} : KeyStep(k))
           => /\ cursor_text' = Append(cursor_text, last_key')
              /\ completion_prefix' = Last(get_dotted_name(cursor_text').value)
              /\ popup' \/ NothingMatches'
        /\ (popup /\ \E k \in {"Escape", "Backspace", ".", " "} : KeyStep(k))
           => /\ ~popup'
              /\ cursor_text' = TextEdit(cursor_text, last_key') ]_vars

\* C20: the candidate list a completion request leaves in the completer is
\* find_child_names(attr_of) of the namespace as it is at that request,
\* whatever runs and requests came before.
C20_ListIsCurrent ==
    [][ RequestStep
          => model' = find_child_names(Front(get_dotted_name(cursor_text').value),
                                       namespace, underscore) ]_vars

====
